---- MODULE Spec2Model ----
(***************************************************************************)
(* DPInstrumentationOmission::runOnModule                                  *)
(* (src/DPInstrumentationOmission/DPInstrumentationOmission.cpp).          *)
(*                                                                         *)
(* The pass walks the functions of a module.  For each function it         *)
(* collects the local values, revokes the escaped ones, selects the        *)
(* omittable loads/stores, optionally walks the dependence graph, inserts  *)
(* the __dp_report_bb calls and erases the __dp_read/__dp_write calls in   *)
(* front of the omittable operations.  After the last function it          *)
(* serializes the table and inserts __dp_add_omission_deps.                *)
(***************************************************************************)
EXTENDS Integers, Sequences, FiniteSets, TLC

\* Largest number of dependence edges between operations of one function.
MaxEdges == 2
\* Largest number of __dp_finalize calls in the entry function.
MaxFinalize == 2
\* Largest number of entries of a table given directly to the encoder.
MaxEntries == 2

\* getCalledFunction() of an indirect call.
NULL == "null"
\* getItem() of an artifact node of the dependence graph: no instruction.
NoItem == 0

(***************************************************************************)
(* Sequences and strings.  A string is a sequence of one-character strings.*)
(***************************************************************************)
Range(s) == {s[i] : i \in 1..Len(s)}

RECURSIVE Flatten(_)
Flatten(ss) == IF ss = <<>> THEN <<>> ELSE Head(ss) \o Flatten(Tail(ss))

\* The character codes that order std::string (operator< of std::set<string>).
Code(c) ==
  CASE c = "," -> 44 [] c = "/" -> 47
    [] c = "0" -> 48 [] c = "1" -> 49 [] c = "2" -> 50 [] c = "3" -> 51
    [] c = "4" -> 52 [] c = "5" -> 53 [] c = "6" -> 54 [] c = "7" -> 55
    [] c = "8" -> 56 [] c = "9" -> 57
    [] c = "A" -> 65 [] c = "R" -> 82 [] c = "W" -> 87

RECURSIVE StrLess(_, _)
StrLess(a, b) ==
  IF b = <<>> THEN FALSE
  ELSE IF a = <<>> THEN TRUE
  ELSE IF Code(Head(a)) < Code(Head(b)) THEN TRUE
  ELSE IF Code(Head(a)) > Code(Head(b)) THEN FALSE
  ELSE StrLess(Tail(a), Tail(b))

\* The iteration order of a std::set<string>.
RECURSIVE SortedStrings(_)
SortedStrings(S) ==
  IF S = {} THEN <<>>
  ELSE LET m == CHOOSE x \in S : \A y \in S \ {x} : StrLess(x, y)
       IN  <<m>> \o SortedStrings(S \ {m})

Digit(n) ==
  CASE n = 0 -> "0" [] n = 1 -> "1" [] n = 2 -> "2" [] n = 3 -> "3"
    [] n = 4 -> "4" [] n = 5 -> "5" [] n = 6 -> "6" [] n = 7 -> "7"
    [] n = 8 -> "8" [] n = 9 -> "9"

(***************************************************************************)
(* Instructions.  id is the identity (the pointer) of a load or store;     *)
(* the other instructions are never referred to by identity and carry 0.   *)
(* ptr is the pointer operand of a load/store or the value bound by a      *)
(* debug intrinsic, val the stored value, dl whether a DebugLoc is set,    *)
(* idx/str the constant argument of an inserted call.                      *)
(***************************************************************************)
Inst(opc, callee, args, ptr, val, dl, id) ==
  [opc |-> opc, callee |-> callee, args |-> args, ptr |-> ptr, val |-> val,
   dl |-> dl, id |-> id, idx |-> 0, str |-> <<>>]

DbgDeclare(v) == Inst("dbgdeclare", "llvm.dbg.declare", <<"metadata">>, v, "none", FALSE, 0)
DbgValue(v)   == Inst("dbgvalue", "llvm.dbg.value", <<"metadata">>, v, "none", FALSE, 0)
Call(callee, args) == Inst("call", callee, args, "none", "none", TRUE, 0)
Load(p, id)   == Inst("load", NULL, <<>>, p, "none", TRUE, id)
Store(v, p, dl, id) == Inst("store", NULL, <<>>, p, v, dl, id)
Term          == Inst("br", NULL, <<>>, "none", "none", TRUE, 0)
ReportCall(k) == [Call("__dp_report_bb", <<"const">>) EXCEPT !.idx = k]
AddDepsCall(s) == [Call("__dp_add_omission_deps", <<"gstr">>) EXCEPT !.str = s]

IsCallInst(I)  == I.opc \in {"call", "dbgdeclare", "dbgvalue"}
IsStore(I)     == I.opc = "store"
IsLoad(I)      == I.opc = "load"
IsTracking(I)  == I.opc = "call" /\ I.callee \in {"__dp_write", "__dp_read"}
\* Value::getName(): a value is identified by its name in this model.
getName(v)     == v

\* inst_begin(F) .. inst_end(F): the instructions of F in block order.
Insts(F) == Flatten(F.blocks)
\* Function::getInstructionCount skips the debug intrinsics (llvm.dbg.*).
getInstructionCount(F) ==
  Cardinality({i \in 1..Len(Insts(F)) : Insts(F)[i].opc \notin {"dbgdeclare", "dbgvalue"}})

\* The block (index) and the position in it of the instruction with identity id.
BlockOf(F, id) ==
  CHOOSE b \in 1..Len(F.blocks) : \E i \in 1..Len(F.blocks[b]) : F.blocks[b][i].id = id
PosOf(F, id) ==
  CHOOSE i \in 1..Len(F.blocks[BlockOf(F, id)]) : F.blocks[BlockOf(F, id)][i].id = id
InstOf(F, id) == F.blocks[BlockOf(F, id)][PosOf(F, id)]
\* The identities of the loads and stores of F.
OpIds(F) == {I.id : I \in {J \in Range(Insts(F)) : IsStore(J) \/ IsLoad(J)}}

(***************************************************************************)
(* Lines 39-46: the values bound by llvm.dbg.declare / llvm.dbg.value.     *)
(***************************************************************************)
RECURSIVE SeedLocals(_, _)
SeedLocals(insts, local) ==
  IF insts = <<>> THEN local
  ELSE LET I == Head(insts) IN
       SeedLocals(Tail(insts),
                  IF I.opc = "dbgdeclare" THEN local \cup {I.ptr}
                  ELSE IF I.opc = "dbgvalue" THEN local \cup {I.ptr}
                  ELSE local)

(***************************************************************************)
(* Lines 48-78, one instruction.  st = [local, written, erased].  erased   *)
(* records that localValues.erase(v) ran inside a range-for over           *)
(* localValues: the iterator of the running loop is then invalid and       *)
(* advancing it is undefined.                                              *)
(***************************************************************************)
\* Lines 49-64: arguments of a call with a known callee leave localValues.
ScanCall(st, I) ==
  IF IsCallInst(I) /\ I.callee # NULL
  THEN [st EXCEPT !.local = st.local \ Range(I.args),
                  !.erased = st.erased \/ (st.local \cap Range(I.args) # {})]
  ELSE st

\* Lines 66-77: a store with a DebugLoc writes its pointer operand; the
\* stored value leaves localValues.
ScanStore(st, I) ==
  IF IsStore(I)
  THEN [st EXCEPT !.written = IF I.dl THEN st.written \cup {I.ptr} ELSE st.written,
                  !.local = st.local \ {I.val},
                  !.erased = st.erased \/ (I.val \in st.local)]
  ELSE st

RECURSIVE ScanInsts(_, _)
ScanInsts(insts, st) ==
  IF insts = <<>> THEN st
  ELSE ScanInsts(Tail(insts), ScanStore(ScanCall(st, Head(insts)), Head(insts)))

(***************************************************************************)
(* Lines 80-90: the loads/stores on a local, never written value, and      *)
(* those on a value named "retval".                                        *)
(***************************************************************************)
IsBaselineOmittable(I, local, written) ==
  \/ (I.ptr \in local /\ I.ptr \notin written)
  \/ getName(I.ptr) = "retval"

BaselineOmittable(insts, local, written) ==
  {I.id : I \in {J \in Range(insts) :
                   (IsStore(J) \/ IsLoad(J)) /\ IsBaselineOmittable(J, local, written)}}

(***************************************************************************)
(* DominatorTree::dominates(Def, User) on two instructions of F: in one    *)
(* block the earlier instruction dominates the later one, an instruction   *)
(* never dominates itself; across blocks the block of Def must properly    *)
(* dominate the block of User.  F.idom is the dominator tree of the        *)
(* blocks (0 for the entry block).                                         *)
(***************************************************************************)
RECURSIVE BlockDominates(_, _, _)
BlockDominates(F, a, b) ==
  IF b = 0 THEN FALSE
  ELSE IF a = b THEN TRUE
  ELSE BlockDominates(F, a, F.idom[b])

dominates(F, def, user) ==
  IF def = user THEN FALSE
  ELSE IF BlockOf(F, def) = BlockOf(F, user) THEN PosOf(F, def) < PosOf(F, user)
  ELSE BlockDominates(F, BlockOf(F, def), BlockOf(F, user))

(***************************************************************************)
(* The dependence graph: dg.nodes is the sequence DG.getNodes() of items   *)
(* (NULL for an artifact node), dg.edges the set of edges <<src, dst>> as  *)
(* indices into dg.nodes.                                                  *)
(***************************************************************************)
getOutEdges(dg, n) == {e \in dg.edges : e[1] = n}
getInEdges(dg, n)  == {e \in dg.edges : e[2] = n}

\* InstructionDG::edgeToDPDep: the kind of the dependence of src on dst and
\* the source lines of the two operations.
edgeToDPDep(F, dg, e) ==
  LET I == InstOf(F, dg.nodes[e[1]])
      J == InstOf(F, dg.nodes[e[2]])
      kind == IF IsStore(I) THEN (IF IsStore(J) THEN <<"W", "A", "W">>
                                                ELSE <<"W", "A", "R">>)
              ELSE <<"R", "A", "W">>
  IN  kind \o <<Digit(I.id), Digit(J.id)>>

\* Line 108 and line 114: the edge is predictable as seen from node n.
OutPredictable(F, dg, n, e) ==
  LET I == dg.nodes[n]  J == dg.nodes[e[2]]
  IN  ~(I = J \/ ~dominates(F, J, I))
InPredictable(F, dg, n, e) ==
  LET I == dg.nodes[n]  J == dg.nodes[e[1]]
  IN  ~(I = J \/ ~dominates(F, I, J))

\* The edges of node n whose other endpoint carries an instruction.
OutPresent(dg, n) == {e \in getOutEdges(dg, n) : dg.nodes[e[2]] # NoItem}
InPresent(dg, n)  == {e \in getInEdges(dg, n) : dg.nodes[e[1]] # NoItem}

\* A visit that does not stop at "goto next" keeps what it inserted so far.
NodeDeps_KeepPartial(F, dg, n) ==
  [ok |-> TRUE,
   deps |-> {edgeToDPDep(F, dg, e) :
               e \in {x \in OutPresent(dg, n) : OutPredictable(F, dg, n, x)}
                  \cup {x \in InPresent(dg, n) : InPredictable(F, dg, n, x)}}]

\* A walk that tests I == J only and leaves out the dominance test.
NodeDeps_NoDominance(F, dg, n) ==
  [ok |-> /\ \A e \in OutPresent(dg, n) : dg.nodes[n] # dg.nodes[e[2]]
          /\ \A e \in InPresent(dg, n) : dg.nodes[n] # dg.nodes[e[1]],
   deps |-> {edgeToDPDep(F, dg, e) : e \in OutPresent(dg, n) \cup InPresent(dg, n)}]

(***************************************************************************)
(* Lines 105-117: the walk over the edges of node n.  ok is FALSE when the *)
(* walk left through "goto next"; deps is tmpDeps of a completed walk.     *)
(***************************************************************************)
NodeDeps(F, dg, n) ==
  [ok |-> /\ \A e \in OutPresent(dg, n) : OutPredictable(F, dg, n, e)
          /\ \A e \in InPresent(dg, n) : InPredictable(F, dg, n, e),
   deps |-> {edgeToDPDep(F, dg, e) : e \in OutPresent(dg, n) \cup InPresent(dg, n)}]

\* Line 119: the condition under which node n is recorded.
NodeProven(F, dg, n, local) ==
  LET r == NodeDeps(F, dg, n)
  IN  r.ok /\ Cardinality(r.deps) > 0 /\ InstOf(F, dg.nodes[n]).ptr \in local

\* A walk that drops the instruction when it leaves through "goto next".
OmitAfterNode_Dropping(omit, F, dg, n, local) ==
  IF NodeProven(F, dg, n, local) THEN omit \cup {dg.nodes[n]}
  ELSE omit \ {dg.nodes[n]}

\* Line 120: omittableInstructions after the visit of node n.
OmitAfterNode(omit, F, dg, n, local) ==
  IF NodeProven(F, dg, n, local) THEN omit \cup {dg.nodes[n]} ELSE omit

\* Lines 121-124: conditionalDepMap after the visit of node n; key is the
\* block of the instruction (getParent()).
MapAfterNode(map, key, F, dg, n, local) ==
  IF ~NodeProven(F, dg, n, local) THEN map
  ELSE IF key \notin DOMAIN map
       THEN [k \in DOMAIN map \cup {key} |->
               IF k = key THEN NodeDeps(F, dg, n).deps ELSE map[k]]
       ELSE [map EXCEPT ![key] = map[key] \cup NodeDeps(F, dg, n).deps]

(***************************************************************************)
(* Lines 129-132: the loop over conditionalDepMap, a std::map keyed by     *)
(* BasicBlock*, which iterates in the order of the block addresses.  A key *)
(* is <<function index, block index>>; F.addr gives the address of each    *)
(* block of F.                                                             *)
(***************************************************************************)
RECURSIVE KeysByAddress(_, _)
KeysByAddress(F, keys) ==
  IF keys = {} THEN <<>>
  ELSE LET m == CHOOSE k \in keys : \A j \in keys : F.addr[k[2]] <= F.addr[j[2]]
       IN  <<m>> \o KeysByAddress(F, keys \ {m})

\* CallInst::Create(..., InsertBefore): the instruction is put in front of
\* position i of the block.
InsertBefore(block, i, I) ==
  SubSeq(block, 1, i - 1) \o <<I>> \o SubSeq(block, i, Len(block))

\* getTerminator(): the last instruction of a block.
TerminatorPos(block) == Len(block)

\* A report call that carries the size of the table after the push_back.
ReportStep_IndexAfterPush(st, key, deps) ==
  [F |-> [st.F EXCEPT !.blocks[key[2]] =
            InsertBefore(@, TerminatorPos(@), ReportCall(Len(st.table) + 1))],
   table |-> Append(st.table, deps)]

\* Lines 130-131, one pair of the map.  st = [F, table].
ReportStep(st, key, deps) ==
  [F |-> [st.F EXCEPT !.blocks[key[2]] =
            InsertBefore(@, TerminatorPos(@), ReportCall(Len(st.table)))],
   table |-> Append(st.table, deps)]

RECURSIVE ReportLoop(_, _, _)
ReportLoop(st, keys, map) ==
  IF keys = <<>> THEN st
  ELSE ReportLoop(ReportStep(st, Head(keys), map[Head(keys)]), Tail(keys), map)

ReportBlocks(F, f, map, table) ==
  ReportLoop([F |-> F, table |-> table],
             KeysByAddress(F, {k \in DOMAIN map : k[1] = f}), map)

(***************************************************************************)
(* Lines 165-179: the call in front of an omittable instruction is erased  *)
(* when it is a call of __dp_write or __dp_read.  getPrevNode() is the     *)
(* previous instruction of the same block, none for the first one.         *)
(***************************************************************************)
\* The positions of a block whose instruction is erased.
ErasedAt_AnyOperation(block, omit) ==
  {j \in 1..Len(block) :
     /\ j < Len(block)
     /\ (IsStore(block[j + 1]) \/ IsLoad(block[j + 1]))
     /\ IsTracking(block[j])}

ErasedAt(block, omit) ==
  {j \in 1..Len(block) :
     /\ j < Len(block)
     /\ block[j + 1].id \in omit
     /\ IsCallInst(block[j]) /\ block[j].callee # NULL
     /\ IsTracking(block[j])}

RECURSIVE Without(_, _, _)
Without(block, j, erased) ==
  IF j > Len(block) THEN <<>>
  ELSE (IF j \in erased THEN <<>> ELSE <<block[j]>>) \o Without(block, j + 1, erased)

RemoveTracking(F, omit) ==
  [F EXCEPT !.blocks = [b \in 1..Len(F.blocks) |->
                          Without(F.blocks[b], 1, ErasedAt(F.blocks[b], omit))]]

(***************************************************************************)
(* Lines 185-196: depString.                                               *)
(***************************************************************************)
RECURSIVE AppendDeps(_, _, _)
AppendDeps(str, deps, first2) ==
  IF deps = <<>> THEN str
  ELSE AppendDeps((IF ~first2 THEN str \o <<",">> ELSE str) \o Head(deps),
                  Tail(deps), FALSE)

\* An encoder that separates the entries with the separator of descriptors.
RECURSIVE AppendEntries_OneSeparator(_, _, _)
AppendEntries_OneSeparator(str, table, first1) ==
  IF table = <<>> THEN str
  ELSE AppendEntries_OneSeparator(
         AppendDeps(IF ~first1 THEN str \o <<",">> ELSE str,
                    SortedStrings(Head(table)), TRUE),
         Tail(table), FALSE)

RECURSIVE AppendEntries(_, _, _)
AppendEntries(str, table, first1) ==
  IF table = <<>> THEN str
  ELSE AppendEntries(
         AppendDeps(IF ~first1 THEN str \o <<"/">> ELSE str,
                    SortedStrings(Head(table)), TRUE),
         Tail(table), FALSE)

EncodeTable(table) == AppendEntries(<<>>, table, TRUE)

(***************************************************************************)
(* Lines 199-220: in the function named main, a call of                    *)
(* __dp_add_omission_deps is put in front of every call of __dp_finalize.  *)
(***************************************************************************)
IsFinalize(I) == IsCallInst(I) /\ I.callee # NULL /\ I.callee = "__dp_finalize"

\* An insertion behind the call instead of in front of it.
RECURSIVE AttachBlock_Behind(_, _)
AttachBlock_Behind(block, str) ==
  IF block = <<>> THEN <<>>
  ELSE (IF IsFinalize(Head(block)) THEN <<Head(block), AddDepsCall(str)>>
        ELSE <<Head(block)>>)
       \o AttachBlock_Behind(Tail(block), str)

RECURSIVE AttachBlock(_, _)
AttachBlock(block, str) ==
  IF block = <<>> THEN <<>>
  ELSE (IF IsFinalize(Head(block)) THEN <<AddDepsCall(str), Head(block)>>
        ELSE <<Head(block)>>)
       \o AttachBlock(Tail(block), str)

AttachFunction(F, str) ==
  IF F.name = NULL \/ F.name # "main" THEN F
  ELSE [F EXCEPT !.blocks = [b \in 1..Len(F.blocks) |-> AttachBlock(F.blocks[b], str)]]

AttachModule(mod, str) == [f \in 1..Len(mod) |-> AttachFunction(mod[f], str)]

(***************************************************************************)
(* The reader of the serialized table: the entries are the maximal runs    *)
(* without "/", the descriptors of an entry its maximal runs without ",".  *)
(***************************************************************************)
RECURSIVE Tokens(_, _, _)
Tokens(str, delim, cur) ==
  IF str = <<>> THEN (IF cur = <<>> THEN <<>> ELSE <<cur>>)
  ELSE IF Head(str) = delim
       THEN (IF cur = <<>> THEN <<>> ELSE <<cur>>) \o Tokens(Tail(str), delim, <<>>)
       ELSE Tokens(Tail(str), delim, Append(cur, Head(str)))

DecodeTable(str) ==
  LET entries == Tokens(str, "/", <<>>)
  IN  [i \in 1..Len(entries) |-> Range(Tokens(entries[i], ",", <<>>))]

(***************************************************************************)
(* The modules given to the pass.  A function is [name, blocks, addr,      *)
(* idom]; a module is the sequence <<entry function, declaration, f>>.     *)
(***************************************************************************)
TrackArgs == <<"lid", "addr", "name">>

\* The entry function: a store to and a load from its local x, then one
\* block per exit, each with a call of __dp_finalize.
BuildMain(name, nfin) ==
  [name |-> name,
   blocks |-> <<<<DbgDeclare("x"),
                  Call("__dp_write", TrackArgs), Store("c", "x", TRUE, 1),
                  Call("__dp_read", TrackArgs), Load("x", 2),
                  Term>>>>
              \o [b \in 1..nfin |-> <<Call("__dp_finalize", <<>>), Term>>],
   addr |-> [b \in 1..(nfin + 1) |-> b],
   idom |-> [b \in 1..(nfin + 1) |-> IF b = 1 THEN 0 ELSE 1]]

\* Its dependence graph: an artifact entry node, the store, the load; the
\* load depends on the store.
MainDG == [nodes |-> <<NoItem, 1, 2>>, edges |-> {<<2, 1>>, <<3, 2>>}]

\* A declaration: no instructions.
Declaration == [name |-> "__dp_finalize", blocks |-> <<>>, addr |-> <<>>, idom |-> <<>>]
EmptyDG == [nodes |-> <<>>, edges |-> {}]

\* The three operations of f: their blocks, kinds and addresses.
Layouts == {<<1, 1, 1>>, <<2, 3, 4>>, <<1, 2, 3>>}
Kinds   == {<<"S", "L", "L">>, <<"L", "S", "S">>}
Addrs   == {<<"x", "x", "x">>, <<"retval", "retval", "retval">>, <<"x", "x", "retval">>}
\* The values bound by debug intrinsics in f, and how the address x leaves
\* f, if it does.
Scenarios == {<<{}, "none">>, <<{"x", "retval"}, "none">>}
             \cup {<<{"x"}, esc>> : esc \in {"none", "direct", "indirect", "storeval"}}
\* The addresses of the four blocks of f.
BlockAddrs == {<<10, 20, 30, 40>>, <<40, 30, 20, 10>>}

OpId(k) == k + 2

\* Operation k of f with its tracking call; the first store carries no
\* DebugLoc and no tracking call when noDl.
OpInsts(kinds, addrs, noDl, k) ==
  LET firstStore == CHOOSE j \in 1..3 : kinds[j] = "S" /\ \A i \in 1..(j - 1) : kinds[i] # "S"
      dl == ~(noDl /\ k = firstStore)
  IN  IF kinds[k] = "S"
      THEN (IF dl THEN <<Call("__dp_write", TrackArgs)>> ELSE <<>>)
           \o <<Store("c", addrs[k], dl, OpId(k))>>
      ELSE <<Call("__dp_read", TrackArgs), Load(addrs[k], OpId(k))>>

\* f: an entry block, two sibling branches and their merge block.  A direct
\* call that takes x stands in front of the debug intrinsics, an indirect
\* call or a store of x behind them.
BuildF(layout, kinds, addrs, noDl, esc, dbg, baddr) ==
  LET pre  == IF esc = "direct" THEN <<Call("helper", <<"x">>)>> ELSE <<>>
      dbgs == (IF "x" \in dbg THEN <<DbgDeclare("x")>> ELSE <<>>)
              \o (IF "retval" \in dbg THEN <<DbgValue("retval")>> ELSE <<>>)
      post == IF esc = "indirect" THEN <<Call(NULL, <<"x">>)>>
              ELSE IF esc = "storeval"
                   THEN <<Call("__dp_write", TrackArgs), Store("x", "q", TRUE, 6)>>
                   ELSE <<>>
      ops(b) == Flatten([k \in 1..3 |->
                  IF layout[k] = b THEN OpInsts(kinds, addrs, noDl, k) ELSE <<>>])
  IN  [name |-> "f",
       blocks |-> [b \in 1..4 |->
                     (IF b = 1 THEN pre \o dbgs \o post ELSE <<>>) \o ops(b) \o <<Term>>],
       addr |-> baddr,
       idom |-> <<0, 1, 1, 1>>]

\* The dependence edges f can have: of an operation on an earlier operation
\* on the same address or on itself, one of the two a store.  Node k + 1
\* carries operation k; node 1 is the artifact entry node, which the first
\* operation is linked to.
AllowedEdges(kinds, addrs) ==
  {e \in (2..4) \X (2..4) :
     /\ e[1] >= e[2]
     /\ addrs[e[1] - 1] = addrs[e[2] - 1]
     /\ (kinds[e[1] - 1] = "S" \/ kinds[e[2] - 1] = "S")}

EdgeSets(kinds, addrs) ==
  {E \in SUBSET AllowedEdges(kinds, addrs) : Cardinality(E) <= MaxEdges}

BuildDG(E) == [nodes |-> <<NoItem, OpId(1), OpId(2), OpId(3)>>, edges |-> E \cup {<<2, 1>>}]

\* The entry functions of the modules: named main with 0..MaxFinalize exits,
\* or not named main.
MainChoices == {<<"main", n>> : n \in 0..MaxFinalize} \cup {<<"other", 1>>}

(***************************************************************************)
(* The state of a run of the pass.                                         *)
(***************************************************************************)
VARIABLES
  M,                      \* the module, rewritten in place
  M0,                     \* the module as it was given to the pass
  DGs,                    \* the InstructionDG of each function
  DPOmissionsDepAnalysis, \* the option -dp-omissions-dep-analysis
  fi,                     \* the function the loop of line 29 is at
  pc,                     \* the position in runOnModule
  localValues,
  writtenValues,
  omittableInstructions,
  conditionalDepMap,      \* keyed by <<function, block>>; the map of the
                          \* function under analysis is its part for fi
  node,                   \* the node the loop of line 103 is at
  seenOrder,              \* the blocks in the order they entered the map
  conditionalBBDeps,      \* the module-wide table
  depString,
  run,                    \* 1 in the first run of the pass, 2 in a second
  snapshot                \* the module as the first run left it

vars == <<M, M0, DGs, DPOmissionsDepAnalysis, fi, pc, localValues, writtenValues,
          omittableInstructions, conditionalDepMap, node, seenOrder,
          conditionalBBDeps, depString, run, snapshot>>

EmptyMap == [k \in {} |-> {}]

\* The state at the entry of runOnModule for module mod.
Start(mod, dgs, deep) ==
  /\ M = mod
  /\ M0 = mod
  /\ DGs = dgs
  /\ DPOmissionsDepAnalysis = deep
  /\ fi = 1
  /\ pc = "start"
  /\ localValues = {}
  /\ writtenValues = {}
  /\ omittableInstructions = {}
  /\ conditionalDepMap = EmptyMap
  /\ node = 1
  /\ seenOrder = <<>>
  /\ conditionalBBDeps = <<>>
  /\ depString = <<>>
  /\ run = 1
  /\ snapshot = <<>>

\* The graphs are built only under the option (line 93).
Init ==
  \E deep \in BOOLEAN, mc \in MainChoices, layout \in Layouts, kinds \in Kinds,
     addrs \in Addrs, noDl \in BOOLEAN, sc \in Scenarios, baddr \in BlockAddrs :
    \E E \in (IF deep THEN EdgeSets(kinds, addrs) ELSE {{}}) :
      Start(<<BuildMain(mc[1], mc[2]), Declaration,
              BuildF(layout, kinds, addrs, noDl, sc[2], sc[1], baddr)>>,
            IF deep THEN <<MainDG, EmptyDG, BuildDG(E)>>
                    ELSE <<EmptyDG, EmptyDG, EmptyDG>>,
            deep)

\* Line 30: a function without instructions is passed over.
SkipFunction ==
  /\ pc = "start" /\ fi <= Len(M)
  /\ getInstructionCount(M[fi]) = 0
  /\ fi' = fi + 1
  /\ UNCHANGED <<M, M0, DGs, DPOmissionsDepAnalysis, pc, localValues, writtenValues,
                 omittableInstructions, conditionalDepMap, node, seenOrder,
                 conditionalBBDeps, depString, run, snapshot>>

\* Lines 36-46.
CollectLocals ==
  /\ pc = "start" /\ fi <= Len(M)
  /\ getInstructionCount(M[fi]) # 0
  /\ omittableInstructions' = {}
  /\ writtenValues' = {}
  /\ localValues' = SeedLocals(Insts(M[fi]), {})
  /\ pc' = "scan"
  /\ UNCHANGED <<M, M0, DGs, DPOmissionsDepAnalysis, fi, conditionalDepMap, node,
                 seenOrder, conditionalBBDeps, depString, run, snapshot>>

\* Lines 48-78.  Once an element was erased inside the range-for over
\* localValues the loop runs on an invalid iterator: it either goes on as
\* if nothing had happened or the pass dies.
ScanEscapes ==
  /\ pc = "scan"
  /\ LET st == ScanInsts(Insts(M[fi]),
                         [local |-> localValues, written |-> writtenValues,
                          erased |-> FALSE])
     IN  /\ localValues' = st.local
         /\ writtenValues' = st.written
         /\ \/ pc' = "select"
            \/ st.erased /\ pc' = "crashed"
  /\ UNCHANGED <<M, M0, DGs, DPOmissionsDepAnalysis, fi, omittableInstructions,
                 conditionalDepMap, node, seenOrder, conditionalBBDeps, depString,
                 run, snapshot>>

\* Lines 80-90 and the test of line 93.
SelectOmittable ==
  /\ pc = "select"
  /\ omittableInstructions' = BaselineOmittable(Insts(M[fi]), localValues, writtenValues)
  /\ pc' = IF DPOmissionsDepAnalysis THEN "graphs" ELSE "remove"
  /\ UNCHANGED <<M, M0, DGs, DPOmissionsDepAnalysis, fi, localValues, writtenValues,
                 conditionalDepMap, node, seenOrder, conditionalBBDeps, depString,
                 run, snapshot>>

\* Lines 94-101: a fresh conditionalDepMap for this function, and its graphs.
BuildGraphs ==
  /\ pc = "graphs"
  /\ conditionalDepMap' = [k \in {j \in DOMAIN conditionalDepMap : j[1] # fi} |->
                             conditionalDepMap[k]]
  /\ seenOrder' = SelectSeq(seenOrder, LAMBDA k : k[1] # fi)
  /\ node' = 1
  /\ pc' = "nodes"
  /\ UNCHANGED <<M, M0, DGs, DPOmissionsDepAnalysis, fi, localValues, writtenValues,
                 omittableInstructions, conditionalBBDeps, depString, run, snapshot>>

\* Lines 103-128, one node.
AnalyseNode ==
  /\ pc = "nodes" /\ node <= Len(DGs[fi].nodes)
  /\ IF DGs[fi].nodes[node] = NoItem
     THEN UNCHANGED <<omittableInstructions, conditionalDepMap, seenOrder>>
     ELSE LET F == M[fi]
              dg == DGs[fi]
              key == <<fi, BlockOf(F, dg.nodes[node])>>
          IN  /\ omittableInstructions' =
                   OmitAfterNode(omittableInstructions, F, dg, node, localValues)
              /\ conditionalDepMap' =
                   MapAfterNode(conditionalDepMap, key, F, dg, node, localValues)
              /\ seenOrder' =
                   IF NodeProven(F, dg, node, localValues) /\ key \notin DOMAIN conditionalDepMap
                   THEN Append(seenOrder, key) ELSE seenOrder
  /\ node' = node + 1
  /\ UNCHANGED <<M, M0, DGs, DPOmissionsDepAnalysis, fi, pc, localValues, writtenValues,
                 conditionalBBDeps, depString, run, snapshot>>

\* Lines 129-132.
InsertReports ==
  /\ pc = "nodes" /\ node > Len(DGs[fi].nodes)
  /\ LET r == ReportBlocks(M[fi], fi, conditionalDepMap, conditionalBBDeps)
     IN  /\ M' = [M EXCEPT ![fi] = r.F]
         /\ conditionalBBDeps' = r.table
  /\ pc' = "remove"
  /\ UNCHANGED <<M0, DGs, DPOmissionsDepAnalysis, fi, localValues, writtenValues,
                 omittableInstructions, conditionalDepMap, node, seenOrder, depString,
                 run, snapshot>>

\* Lines 165-179.
RemoveInstrumentation ==
  /\ pc = "remove"
  /\ M' = [M EXCEPT ![fi] = RemoveTracking(M[fi], omittableInstructions)]
  /\ pc' = "next"
  /\ UNCHANGED <<M0, DGs, DPOmissionsDepAnalysis, fi, localValues, writtenValues,
                 omittableInstructions, conditionalDepMap, node, seenOrder,
                 conditionalBBDeps, depString, run, snapshot>>

\* Line 181: the end of the body of the loop over the functions.
NextFunction ==
  /\ pc = "next"
  /\ fi' = fi + 1
  /\ pc' = "start"
  /\ UNCHANGED <<M, M0, DGs, DPOmissionsDepAnalysis, localValues, writtenValues,
                 omittableInstructions, conditionalDepMap, node, seenOrder,
                 conditionalBBDeps, depString, run, snapshot>>

\* Line 183.
ReturnBaseline ==
  /\ pc = "start" /\ fi > Len(M)
  /\ ~DPOmissionsDepAnalysis
  /\ pc' = "done"
  /\ UNCHANGED <<M, M0, DGs, DPOmissionsDepAnalysis, fi, localValues, writtenValues,
                 omittableInstructions, conditionalDepMap, node, seenOrder,
                 conditionalBBDeps, depString, run, snapshot>>

\* Lines 185-221.
AttachTable ==
  /\ pc = "start" /\ fi > Len(M)
  /\ DPOmissionsDepAnalysis
  /\ depString' = EncodeTable(conditionalBBDeps)
  /\ M' = AttachModule(M, EncodeTable(conditionalBBDeps))
  /\ pc' = "done"
  /\ UNCHANGED <<M0, DGs, DPOmissionsDepAnalysis, fi, localValues, writtenValues,
                 omittableInstructions, conditionalDepMap, node, seenOrder,
                 conditionalBBDeps, run, snapshot>>

\* The pass is run again, by a new pass object, on the module it produced.
Rerun ==
  /\ pc = "done" /\ run = 1
  /\ run' = 2
  /\ snapshot' = M
  /\ fi' = 1
  /\ pc' = "start"
  /\ conditionalBBDeps' = <<>>
  /\ depString' = <<>>
  /\ UNCHANGED <<M, M0, DGs, DPOmissionsDepAnalysis, localValues, writtenValues,
                 omittableInstructions, conditionalDepMap, node, seenOrder>>

Next ==
  \/ SkipFunction
  \/ CollectLocals
  \/ ScanEscapes
  \/ SelectOmittable
  \/ BuildGraphs
  \/ AnalyseNode
  \/ InsertReports
  \/ RemoveInstrumentation
  \/ NextFunction
  \/ ReturnBaseline
  \/ AttachTable

Spec == Init /\ [][Next]_vars

NextRerun == Next \/ Rerun

SpecRerun == Init /\ [][NextRerun]_vars

(***************************************************************************)
(* The encoder alone, on tables of any content: the state in front of      *)
(* line 185 with a given conditionalBBDeps.                                *)
(***************************************************************************)
EncDescriptors ==
  {<<"R", "A", "W", "2", "1">>, <<"W", "A", "R", "2", "1">>, <<"W", "A", "W", "1", "1">>}

RECURSIVE TablesUpTo(_)
TablesUpTo(n) ==
  IF n = 0 THEN {<<>>}
  ELSE TablesUpTo(n - 1)
       \cup {Append(t, e) : t \in {u \in TablesUpTo(n - 1) : Len(u) = n - 1},
                            e \in (SUBSET EncDescriptors) \ {{}}}

InitEncode ==
  \E n \in 0..MaxFinalize, t \in TablesUpTo(MaxEntries) :
    /\ M = <<BuildMain("main", n)>>
    /\ M0 = <<BuildMain("main", n)>>
    /\ DGs = <<MainDG>>
    /\ DPOmissionsDepAnalysis = TRUE
    /\ fi = 2
    /\ pc = "start"
    /\ localValues = {}
    /\ writtenValues = {}
    /\ omittableInstructions = {}
    /\ conditionalDepMap = EmptyMap
    /\ node = 1
    /\ seenOrder = <<>>
    /\ conditionalBBDeps = t
    /\ depString = <<>>
    /\ run = 1
    /\ snapshot = <<>>

NextEncode == AttachTable

SpecEncode == InitEncode /\ [][NextEncode]_vars

(***************************************************************************)
(* Notions the properties are stated in.                                   *)
(***************************************************************************)
\* The instruction in front of the operation id of F is a tracking call.
HasTrack(F, id) ==
  PosOf(F, id) > 1 /\ IsTracking(F.blocks[BlockOf(F, id)][PosOf(F, id) - 1])

\* The run erased the tracking call of operation id of function f.
TrackRemoved(f, id) == HasTrack(M0[f], id) /\ ~HasTrack(M[f], id)

\* The dependence edges of operation id whose two endpoints are operations.
EdgesOf(dg, id) ==
  {e \in dg.edges : /\ dg.nodes[e[1]] # NoItem /\ dg.nodes[e[2]] # NoItem
                    /\ (dg.nodes[e[1]] = id \/ dg.nodes[e[2]] = id)}

\* The order of the endpoints of e is fixed by dominance: the operation
\* depended on dominates the depending one.
Predictable(F, dg, e) ==
  /\ dg.nodes[e[1]] # dg.nodes[e[2]]
  /\ dominates(F, dg.nodes[e[2]], dg.nodes[e[1]])

\* e joins two operations of which neither dominates the other.
Sibling(F, dg, e) ==
  /\ dg.nodes[e[1]] # dg.nodes[e[2]]
  /\ ~dominates(F, dg.nodes[e[2]], dg.nodes[e[1]])
  /\ ~dominates(F, dg.nodes[e[1]], dg.nodes[e[2]])

AllPredictable(F, dg, id) == \A e \in EdgesOf(dg, id) : Predictable(F, dg, e)

\* The baseline omittable set of the function under analysis.
Baseline == BaselineOmittable(Insts(M0[fi]), localValues, writtenValues)

\* The analysis of function fi is complete and its rewriting is applied.
FunctionDone == pc = "next"
\* The loop over the nodes of function fi has ended.
NodesDone == pc = "nodes" /\ node > Len(DGs[fi].nodes)

\* The positions of block b of function f that hold a call of callee.
CallsAt(f, b, callee) ==
  {i \in 1..Len(M[f].blocks[b]) :
     M[f].blocks[b][i].opc = "call" /\ M[f].blocks[b][i].callee = callee}

AllBlocks == UNION {{<<f, b>> : b \in 1..Len(M[f].blocks)} : f \in 1..Len(M)}

(***************************************************************************)
(* C1, as stated.  Soundness: every operation whose tracking call was      *)
(* erased is on an address of the final local set and is either on an      *)
(* address no store with a DebugLoc writes or has only predictable         *)
(* dependence edges; an operation on "retval" is no exception.             *)
(***************************************************************************)
C1_SoundnessAsStated ==
  FunctionDone =>
    \A id \in OpIds(M0[fi]) :
      TrackRemoved(fi, id) =>
        LET p == InstOf(M0[fi], id).ptr
        IN  /\ p \in localValues
            /\ (p \notin writtenValues \/ AllPredictable(M0[fi], DGs[fi], id))

(***************************************************************************)
(* C1, amended.  Every operation whose tracking call was erased is on a    *)
(* value named "retval", or is on an address of the final local set and    *)
(* is either on an address no store with a DebugLoc writes or, under the   *)
(* deep analysis, has at least one dependence edge and only predictable    *)
(* ones.                                                                   *)
(***************************************************************************)
C1_Soundness ==
  FunctionDone =>
    \A id \in OpIds(M0[fi]) :
      TrackRemoved(fi, id) =>
        LET p == InstOf(M0[fi], id).ptr
        IN  \/ getName(p) = "retval"
            \/ /\ p \in localValues
               /\ \/ p \notin writtenValues
                  \/ /\ DPOmissionsDepAnalysis
                     /\ EdgesOf(DGs[fi], id) # {}
                     /\ AllPredictable(M0[fi], DGs[fi], id)

\* C1: a tracking call was erased on each of the three grounds, and an
\* operation on a written local address with an unpredictable edge kept its.
C1_Witness ==
  /\ FunctionDone /\ fi = 3
  /\ \E id \in OpIds(M0[fi]) :
       /\ TrackRemoved(fi, id)
       /\ InstOf(M0[fi], id).ptr \in localValues \cap writtenValues
  /\ \E id \in OpIds(M0[fi]) :
       /\ HasTrack(M[fi], id)
       /\ InstOf(M0[fi], id).ptr \in localValues \cap writtenValues
       /\ ~AllPredictable(M0[fi], DGs[fi], id)

(***************************************************************************)
(* C2, as stated.  All-or-nothing per node: when the loop over the nodes   *)
(* has ended, an operation with an unpredictable edge was not added to     *)
(* the omittable set by the deep analysis, and the descriptor of none of   *)
(* its edges is in the ConditionalDependencySet of any block.              *)
(***************************************************************************)
C2_AllOrNothingAsStated ==
  NodesDone =>
    \A id \in OpIds(M[fi]) :
      ~AllPredictable(M[fi], DGs[fi], id) =>
        /\ (id \in omittableInstructions => id \in Baseline)
        /\ \A e \in EdgesOf(DGs[fi], id) : \A k \in DOMAIN conditionalDepMap :
             edgeToDPDep(M[fi], DGs[fi], e) \notin conditionalDepMap[k]

(***************************************************************************)
(* C2, amended.  When the loop over the nodes has ended, an operation with *)
(* an unpredictable edge was not added to the omittable set by the deep    *)
(* analysis and its own visit added no descriptor: every descriptor in the *)
(* set of a block is that of an edge of an operation of that block which   *)
(* is on a local address and has only predictable edges.                   *)
(***************************************************************************)
C2_AllOrNothing ==
  NodesDone =>
    /\ \A id \in OpIds(M[fi]) :
         ~AllPredictable(M[fi], DGs[fi], id) =>
           (id \in omittableInstructions => id \in Baseline)
    /\ \A k \in DOMAIN conditionalDepMap : k[1] = fi =>
         \A d \in conditionalDepMap[k] :
           \E id \in OpIds(M[fi]) :
             /\ BlockOf(M[fi], id) = k[2]
             /\ AllPredictable(M[fi], DGs[fi], id)
             /\ InstOf(M[fi], id).ptr \in localValues
             /\ \E e \in EdgesOf(DGs[fi], id) : edgeToDPDep(M[fi], DGs[fi], e) = d

\* C2: an operation on a local address has an unpredictable edge and a
\* predictable one, and the descriptor of the predictable one was recorded
\* by the visit of its other endpoint.
C2_Witness ==
  /\ NodesDone
  /\ \E id \in OpIds(M[fi]) :
       /\ InstOf(M[fi], id).ptr \in localValues
       /\ id \notin Baseline
       /\ \E e \in EdgesOf(DGs[fi], id) : ~Predictable(M[fi], DGs[fi], e)
       /\ \E e \in EdgesOf(DGs[fi], id) : \E k \in DOMAIN conditionalDepMap :
            /\ Predictable(M[fi], DGs[fi], e)
            /\ edgeToDPDep(M[fi], DGs[fi], e) \in conditionalDepMap[k]

(***************************************************************************)
(* C3, as stated.  Escape via call: an address passed as an argument to a  *)
(* call of the function, direct or through a function pointer, is not in   *)
(* the local set after the classification, and no operation on it is       *)
(* omittable or loses its tracking call.                                   *)
(***************************************************************************)
CallArguments(F) ==
  UNION {Range(I.args) : I \in {J \in Range(Insts(F)) : J.opc = "call"}}

C3_EscapeViaCall ==
  FunctionDone =>
    \A a \in CallArguments(M0[fi]) :
      /\ a \notin localValues
      /\ \A id \in OpIds(M0[fi]) :
           InstOf(M0[fi], id).ptr = a =>
             id \notin omittableInstructions /\ ~TrackRemoved(fi, id)

(***************************************************************************)
(* C4, as stated.  Idempotent rewriting: a second run of the pass on the   *)
(* module the first run produced leaves the module as it was.              *)
(***************************************************************************)
C4_Idempotent ==
  (run = 2 /\ pc = "done") => M = snapshot

(***************************************************************************)
(* C5, as stated.  First-encountered table order: the table has one entry  *)
(* per block with proven dependences, and entry i belongs to the i-th      *)
(* block, in the order the blocks were first proven.                       *)
(***************************************************************************)
C5_FirstEncounteredOrder ==
  (pc = "done" /\ DPOmissionsDepAnalysis) =>
    /\ Len(conditionalBBDeps) = Len(seenOrder)
    /\ \A i \in 1..Len(seenOrder) :
         \E p \in CallsAt(seenOrder[i][1], seenOrder[i][2], "__dp_report_bb") :
           M[seenOrder[i][1]].blocks[seenOrder[i][2]][p].idx = i - 1

(***************************************************************************)
(* C6.  Report-call index agreement: after the module is processed under   *)
(* the deep analysis, each block with an entry of the table holds exactly  *)
(* one __dp_report_bb call, right in front of its terminator, whose        *)
(* argument k names the entry of the final table that is the block's       *)
(* ConditionalDependencySet; no two blocks carry the same index, and a     *)
(* block without an entry holds no such call.                              *)
(***************************************************************************)
ReportIndex(k) ==
  M[k[1]].blocks[k[2]][CHOOSE p \in CallsAt(k[1], k[2], "__dp_report_bb") : TRUE].idx

C6_ReportIndexAgreement ==
  (pc = "done" /\ DPOmissionsDepAnalysis) =>
    /\ \A k \in DOMAIN conditionalDepMap :
         /\ CallsAt(k[1], k[2], "__dp_report_bb") = {Len(M[k[1]].blocks[k[2]]) - 1}
         /\ ReportIndex(k) + 1 \in 1..Len(conditionalBBDeps)
         /\ conditionalBBDeps[ReportIndex(k) + 1] = conditionalDepMap[k]
    /\ \A k, j \in DOMAIN conditionalDepMap : k # j => ReportIndex(k) # ReportIndex(j)
    /\ \A k \in AllBlocks \ DOMAIN conditionalDepMap :
         CallsAt(k[1], k[2], "__dp_report_bb") = {}
    /\ Len(conditionalBBDeps) = Cardinality(DOMAIN conditionalDepMap)

\* C6: two functions have entries, the later one two of them with
\* different sets.
C6_Witness ==
  /\ pc = "done" /\ DPOmissionsDepAnalysis
  /\ \E k, j, l \in DOMAIN conditionalDepMap :
       /\ k[1] = 1 /\ j[1] = 3 /\ l[1] = 3
       /\ conditionalDepMap[j] # conditionalDepMap[l]

(***************************************************************************)
(* C7.  Monotonicity: from the walk over the dependence graph on, the      *)
(* omittable set contains the baseline omittable set of the function.      *)
(***************************************************************************)
C7_Monotonic ==
  (DPOmissionsDepAnalysis /\ pc \in {"nodes", "remove", "next"}) =>
    Baseline \subseteq omittableInstructions

\* C7: the walk has ended, a baseline omittable operation has an
\* unpredictable edge, and the walk added another operation.
C7_Witness ==
  /\ NodesDone
  /\ \E id \in Baseline : ~AllPredictable(M[fi], DGs[fi], id)
  /\ omittableInstructions \ Baseline # {}

(***************************************************************************)
(* C8.  Serialization round trip: the serialized table, split into         *)
(* entries at "/" and each entry into descriptors at ",", gives the table  *)
(* back: as many entries, in the same order, the same set in each; the     *)
(* empty table gives the empty string.                                     *)
(***************************************************************************)
C8_RoundTrip ==
  pc = "done" =>
    /\ DecodeTable(depString) = conditionalBBDeps
    /\ (conditionalBBDeps = <<>> <=> depString = <<>>)

\* C8: a table of two entries, the first with several descriptors, went
\* through the encoder.
C8_Witness ==
  /\ pc = "done"
  /\ Len(conditionalBBDeps) >= 2
  /\ Cardinality(conditionalBBDeps[1]) >= 2
  /\ conditionalBBDeps[1] # conditionalBBDeps[2]
  /\ depString # <<>>

\* C8: the empty table went through the encoder.
C8_WitnessEmpty == pc = "done" /\ conditionalBBDeps = <<>> /\ depString = <<>>

(***************************************************************************)
(* C9, as stated.  Table attachment: under the deep analysis the module    *)
(* holds exactly one __dp_add_omission_deps call when main has a           *)
(* __dp_finalize call, right in front of it and carrying the serialized    *)
(* table, and none otherwise.                                              *)
(***************************************************************************)
FinalizeCalls(f) ==
  UNION {{<<b, i>> : i \in CallsAt(f, b, "__dp_finalize")} : b \in 1..Len(M[f].blocks)}
AddDepsCount ==
  Cardinality(UNION {{<<k, i>> : i \in CallsAt(k[1], k[2], "__dp_add_omission_deps")} :
                       k \in AllBlocks})
HasMainFinalize == \E f \in 1..Len(M) : M[f].name = "main" /\ FinalizeCalls(f) # {}

C9_AttachedOnce ==
  (pc = "done" /\ DPOmissionsDepAnalysis) =>
    AddDepsCount = IF HasMainFinalize THEN 1 ELSE 0

(***************************************************************************)
(* C9, amended.  Under the deep analysis, after all functions are          *)
(* analysed, one __dp_add_omission_deps call carrying the serialized       *)
(* table stands right in front of every __dp_finalize call of main, and    *)
(* the module holds no other such call: one call when main has one         *)
(* __dp_finalize call, none when there is no main or no __dp_finalize      *)
(* call in it; the erasures and the report calls are applied in each case. *)
(***************************************************************************)
C9_Attached ==
  (pc = "done" /\ DPOmissionsDepAnalysis) =>
    /\ \A f \in 1..Len(M) :
         IF M[f].name = "main"
         THEN /\ \A c \in FinalizeCalls(f) :
                   /\ c[2] > 1
                   /\ M[f].blocks[c[1]][c[2] - 1] =
                        AddDepsCall(EncodeTable(conditionalBBDeps))
              /\ \A b \in 1..Len(M[f].blocks) :
                   \A i \in CallsAt(f, b, "__dp_add_omission_deps") :
                     i < Len(M[f].blocks[b]) /\ IsFinalize(M[f].blocks[b][i + 1])
         ELSE \A b \in 1..Len(M[f].blocks) :
                CallsAt(f, b, "__dp_add_omission_deps") = {}
    /\ Len(DecodeTable(depString)) = Cardinality(DOMAIN conditionalDepMap)
    /\ ~HasTrack(M[1], 1) /\ ~HasTrack(M[1], 2)
    /\ CallsAt(1, 1, "__dp_report_bb") # {}

\* C9: main has two __dp_finalize calls and the table has entries of two
\* functions.
C9_Witness ==
  /\ pc = "done" /\ DPOmissionsDepAnalysis
  /\ M[1].name = "main" /\ Cardinality(FinalizeCalls(1)) = 2
  /\ AddDepsCount = 2
  /\ Len(conditionalBBDeps) >= 2

(***************************************************************************)
(* C10, as stated.  Sibling-branch dependence: under the deep analysis an  *)
(* operation with a dependence edge to or from an operation of which       *)
(* neither dominates the other is not in the final omittable set and keeps *)
(* its tracking call.                                                      *)
(***************************************************************************)
HasSiblingEdge(F, dg, id) == \E e \in EdgesOf(dg, id) : Sibling(F, dg, e)

C10_SiblingAsStated ==
  (FunctionDone /\ DPOmissionsDepAnalysis) =>
    \A id \in OpIds(M0[fi]) :
      HasSiblingEdge(M0[fi], DGs[fi], id) =>
        id \notin omittableInstructions /\ ~TrackRemoved(fi, id)

(***************************************************************************)
(* C10, amended.  Under the deep analysis an operation with a sibling-     *)
(* branch dependence edge is in the final omittable set, or loses its      *)
(* tracking call, only when the baseline selection admits it: its address  *)
(* is local and not written by a store with a DebugLoc, or is named        *)
(* "retval".                                                               *)
(***************************************************************************)
C10_Sibling ==
  (FunctionDone /\ DPOmissionsDepAnalysis) =>
    \A id \in OpIds(M0[fi]) :
      (HasSiblingEdge(M0[fi], DGs[fi], id)
         /\ (id \in omittableInstructions \/ TrackRemoved(fi, id))) =>
        LET p == InstOf(M0[fi], id).ptr
        IN  (p \in localValues /\ p \notin writtenValues) \/ getName(p) = "retval"

\* C10: an operation on a local, written address has a sibling-branch edge
\* and a second, predictable edge, and kept its tracking call.
C10_Witness ==
  /\ FunctionDone /\ DPOmissionsDepAnalysis
  /\ \E id \in OpIds(M0[fi]) :
       /\ HasSiblingEdge(M0[fi], DGs[fi], id)
       /\ \E e \in EdgesOf(DGs[fi], id) : Predictable(M0[fi], DGs[fi], e)
       /\ InstOf(M0[fi], id).ptr \in localValues \cap writtenValues
       /\ HasTrack(M[fi], id)
       /\ id \notin omittableInstructions

====
